---- MODULE Spec2Model ----
(***************************************************************************)
(* Model of the Gemini relay (Cloud Function callGemini) and of the WAV     *)
(* encoder of the client (bufferToWav).                                    *)
(*                                                                         *)
(* One record per HTTP request in flight.  A request moves through the     *)
(* handler in the run-to-completion segments of the async callback: from   *)
(* entry to the await of verifyIdToken, from there to the await of         *)
(* generateContent, and from there to the final response.  The             *)
(* deployment's credential sources (functions.config().gemini.apikey and   *)
(* process.env.GEMINI_API_KEY) are state that a redeploy may change        *)
(* between segments.                                                       *)
(***************************************************************************)
EXTENDS Integers, Sequences, FiniteSets, TLC

\* Number of requests the endpoint handles at the same time.  A slot whose
\* request has been answered and closed takes the next request.
MaxInFlight == 1

\* JavaScript's undefined, for string-valued slots.
Undefined == "undefined"

\* The prefix the handler looks for, as one symbol of a header value.
BearerPrefix == "Bearer "

----------------------------------------------------------------------------
(* Inputs *)

Methods == {"POST", "GET", "OPTIONS"}

\* request.headers.authorization: absent, or a string (a sequence of symbols).
NoHeader == [present |-> FALSE, value |-> <<>>]
Header(v) == [present |-> TRUE, value |-> v]
AuthHeaders ==
    { NoHeader,
      Header(<<"Basic ", "tok">>),
      Header(<<BearerPrefix>>),
      Header(<<BearerPrefix, "tok">>) }

\* request.body: absent (undefined), a primitive, or an object.  A missing
\* property of an object reads as undefined.  `extra` stands for any property
\* other than model, contents and config.
NoBody == [kind |-> "absent", model |-> Undefined, contents |-> Undefined,
           config |-> Undefined, extra |-> Undefined]
PrimitiveBody == [kind |-> "primitive", model |-> Undefined,
                  contents |-> Undefined, config |-> Undefined,
                  extra |-> Undefined]
ObjectBody(m, c, g) == [kind |-> "object", model |-> m, contents |-> c,
                        config |-> g, extra |-> Undefined]

\* An empty list as the value of a property.  An array is truthy.
EmptyList == "[]"
Bodies ==
    { NoBody, PrimitiveBody }
    \cup { ObjectBody(m, c, g) : m \in {Undefined, "gemini-pro"},
                                c \in {Undefined, "hi"},
                                g \in {Undefined} }
    \cup { [ObjectBody("gemini-pro", "hi", "cfg") EXCEPT !.extra = "apiKey"],
           ObjectBody("", "hi", Undefined),
           ObjectBody("gemini-pro", EmptyList, Undefined),
           ObjectBody("gemini-pro", "hi", "") }

Requests == [method : Methods, auth : AuthHeaders, body : Bodies]

\* Values of the two credential sources.
ConfigKeys == {Undefined, "K1"}
EnvKeys == {Undefined, "", "K2"}

\* Reasons for which the identity provider rejects a token.
VerifyErrors == {"expired", "malformed"}

\* Results the upstream generation call resolves with.
UpstreamResult(t, c, u) ==
    [text |-> t, candidates |-> c, usageMetadata |-> u, modelVersion |-> "v1"]
UpstreamResults ==
    { UpstreamResult("hello", "cands", "usage"),
      UpstreamResult("hello", Undefined, "usage"),
      UpstreamResult(Undefined, Undefined, Undefined) }

\* Messages of the errors the upstream call rejects with.  The client was
\* constructed with the credential, so an error may quote it (a rejected
\* header value, a request URL).
UpstreamErrors(key) == { <<"quota exceeded">>, <<"invalid header value", key>> }
AllUpstreamErrors == UNION { UpstreamErrors(key) : key \in {"K1", "K2"} }

\* The options object passed when the body carries no config.
EmptyOptions == "{}"

\* Outcome of the upstream call of a request.
NoOutcome == [outcome |-> "none", result |-> UpstreamResult(Undefined, Undefined, Undefined),
              message |-> <<>>]
Resolved(result) == [outcome |-> "resolved", result |-> result, message |-> <<>>]
Rejected(message) ==
    [outcome |-> "rejected", result |-> UpstreamResult(Undefined, Undefined, Undefined),
     message |-> message]

----------------------------------------------------------------------------
(* State *)

VARIABLES
    reqs,             \* slot -> the request handled there
    gemini_apikey,    \* functions.config().gemini?.apikey
    GEMINI_API_KEY,   \* process.env.GEMINI_API_KEY
    keyFaultLogged,   \* console.error("GEMINI_API_KEY not configured") was written
    wav,              \* the locals of a call of bufferToWav and what it returned
    quant,            \* one sample and what the encoder's scaling makes of it
    client            \* the browser: its environment, its storage and one call

relayVars == <<reqs, gemini_apikey, GEMINI_API_KEY, keyFaultLogged>>
encoderVars == <<wav, quant, client>>
vars == <<reqs, gemini_apikey, GEMINI_API_KEY, keyFaultLogged, wav, quant, client>>

ReqIds == 1 .. MaxInFlight

\* A slot that has not taken a request yet.
Fresh ==
    [ pc |-> "none",
      request |-> [method |-> "POST", auth |-> NoHeader, body |-> NoBody],
      idToken |-> <<>>,          \* const idToken
      verified |-> FALSE,        \* await verifyIdToken returned
      verifyError |-> Undefined, \* what verifyIdToken threw
      apiKey |-> Undefined,      \* const apiKey
      calls |-> <<>>,            \* external calls issued, in order
      upstream |-> NoOutcome,    \* how generateContent ended
      sent |-> <<>> ]            \* responses written, in order

\* An AudioBuffer: every channel holds `length` samples.  A sample is a
\* number of units of 1/SampleDen.
AudioBuffer(rate, chans) ==
    [sampleRate |-> rate, numberOfChannels |-> Len(chans), channels |-> chans]

\* bufferToWav has not been called.
NotCalled ==
    [ pc |-> "idle",
      abuffer |-> AudioBuffer(0, <<>>),  \* argument abuffer
      len |-> 0,                         \* argument len
      numOfChan |-> 0,
      length |-> 0,
      view |-> <<>>,                     \* the bytes of buffer
      offset |-> 0,
      pos |-> 0,
      writes |-> {},                     \* byte ranges written through view
      thrown |-> FALSE,                  \* a DataView write raised RangeError
      out |-> <<>>,                      \* the bytes of the returned Blob
      calls |-> 0,                       \* calls made with these arguments
      given |-> AudioBuffer(0, <<>>),    \* abuffer as it was passed first
      first |-> <<>> ]                   \* what the first call returned

\* No sample has been scaled.
NoSample == [pc |-> "idle", int16 |-> 0, sample |-> 0, value |-> 0]

\* What a call of the client has come to.  The message of an error is a
\* sequence of symbols.
NotEnded == [how |-> "none", message |-> <<>>, value |-> <<>>]
Threw(message) == [how |-> "threw", message |-> message, value |-> <<>>]
Returns(value) == [how |-> "returned", message |-> <<>>, value |-> value]

\* Parameters of a generation call, for a call that has none.
NoParams == [model |-> Undefined, contents |-> Undefined, config |-> Undefined]

\* A browser in which the client module is not loaded.
NoClient ==
    [ pc |-> "unloaded",
      VITE_USE_CLOUD_FUNCTION |-> Undefined,  \* import.meta.env
      VITE_GEMINI_API_KEY |-> Undefined,
      VITE_CLOUD_FUNCTION_URL |-> Undefined,
      firebaseIdToken |-> Undefined,   \* localStorage item; undefined for null
      storageFails |-> FALSE,          \* localStorage.getItem throws
      op |-> "none",                   \* the function called
      params |-> NoParams,
      called |-> <<>>,                 \* functions entered, in order
      fetches |-> <<>>,                \* requests sent with fetch, in order
      clients |-> <<>>,                \* apiKey of each GoogleGenAI constructed
      direct |-> <<>>,                 \* direct generateContent calls, in order
      ended |-> NotEnded ]

----------------------------------------------------------------------------
(* JavaScript helpers *)

\* !v for the string-valued slots of the model.
Falsy(v) == v \in {Undefined, ""}

\* a || b
OrElse(a, b) == IF Falsy(a) THEN b ELSE a

\* authHeader.startsWith("Bearer ")
StartsWithBearer(v) == Len(v) >= 1 /\ v[1] = BearerPrefix

\* authHeader.split("Bearer ")[1], for a value that starts with the prefix:
\* what lies between the first and the second occurrence of the separator.
SplitBearer1(v) ==
    LET later == { i \in 2 .. Len(v) : v[i] = BearerPrefix }
        stop == IF later = {} THEN Len(v) + 1
                ELSE CHOOSE i \in later : \A j \in later : i <= j
    IN  SubSeq(v, 2, stop - 1)

\* JSON serialisation of an object: properties whose value is undefined are
\* left out.
JsonObject(o) == [ k \in { k \in DOMAIN o : o[k] # Undefined } |-> o[k] ]

\* response.status(s).send(b) / .json(b)
Response(s, b) == [status |-> s, body |-> b]

Send(rec, s, b) ==
    [rec EXCEPT !.pc = "done", !.sent = Append(@, Response(s, b))]

ErrorBody(e) == [error |-> e]

----------------------------------------------------------------------------
(* The handler *)

\* cors({ origin: true }): a preflight is answered by the middleware itself
\* and the callback is not invoked.
corsHandler(rec) ==
    IF rec.request.method = "OPTIONS"
    THEN [handled |-> TRUE, rec |-> Send(rec, 204, <<>>)]
    ELSE [handled |-> FALSE, rec |-> rec]

\* The catch clause answering without the error's message.
CatchAllNoMessage(rec, message) ==
    Send(rec, 500, ErrorBody("Failed to process request"))

\* The catch clause of the outer try.
CatchAll(rec, message) ==
    Send(rec, 500, [error |-> "Failed to process request", message |-> message])

\* The entry segment with the bearer test made before the method test.
HandlerEntryAuthFirst(rec) ==
    LET authHeader == rec.request.auth IN
    IF ~authHeader.present \/ authHeader.value = <<>>
       \/ ~StartsWithBearer(authHeader.value)
    THEN Send(rec, 401, ErrorBody("Unauthorized - No token provided"))
    ELSE IF rec.request.method # "POST"
    THEN Send(rec, 405, ErrorBody("Method Not Allowed"))
    ELSE LET idToken == SplitBearer1(authHeader.value) IN
         [rec EXCEPT !.pc = "verifying",
                     !.idToken = idToken,
                     !.calls = Append(@, [fn |-> "verifyIdToken",
                                          args |-> [idToken |-> idToken]])]

\* The entry segment with the header test reduced to a presence test.
HandlerEntryPresenceOnly(rec) ==
    LET authHeader == rec.request.auth IN
    IF rec.request.method # "POST"
    THEN Send(rec, 405, ErrorBody("Method Not Allowed"))
    ELSE IF ~authHeader.present \/ authHeader.value = <<>>
    THEN Send(rec, 401, ErrorBody("Unauthorized - No token provided"))
    ELSE LET idToken == SubSeq(authHeader.value, 2, Len(authHeader.value)) IN
         [rec EXCEPT !.pc = "verifying",
                     !.idToken = idToken,
                     !.calls = Append(@, [fn |-> "verifyIdToken",
                                          args |-> [idToken |-> idToken]])]

\* From the entry of the callback to the await of verifyIdToken.
HandlerEntry(rec) ==
    LET authHeader == rec.request.auth IN
    IF rec.request.method # "POST"
    THEN Send(rec, 405, ErrorBody("Method Not Allowed"))
    ELSE IF ~authHeader.present \/ authHeader.value = <<>>
            \/ ~StartsWithBearer(authHeader.value)
    THEN Send(rec, 401, ErrorBody("Unauthorized - No token provided"))
    ELSE LET idToken == SplitBearer1(authHeader.value) IN
         [rec EXCEPT !.pc = "verifying",
                     !.idToken = idToken,
                     !.calls = Append(@, [fn |-> "verifyIdToken",
                                          args |-> [idToken |-> idToken]])]

\* The credential lookup.
ResolveApiKey(cfg, env) == OrElse(cfg, env)

\* The segment with the payload test requiring both parameters to be missing.
AfterVerifyBothMissing(rec, apiKey) ==
    LET body == rec.request.body
        withKey == [rec EXCEPT !.verified = TRUE, !.apiKey = apiKey]
    IN
    IF Falsy(apiKey)
    THEN Send(withKey, 500, ErrorBody("API key not configured"))
    ELSE IF body.kind = "absent"
    THEN CatchAll(withKey, <<"Cannot destructure property of undefined">>)
    ELSE IF Falsy(body.model) /\ Falsy(body.contents)
    THEN Send(withKey, 400,
              ErrorBody("Missing required parameters: model and contents"))
    ELSE [withKey EXCEPT
            !.pc = "generating",
            !.calls = Append(@, [fn |-> "generateContent",
                                 args |-> [model |-> body.model,
                                           contents |-> body.contents,
                                           config |-> OrElse(body.config, EmptyOptions)]])]

\* The segment with the body read outside the try: the TypeError of an absent
\* body ends the callback without a response.
AfterVerifyUncaught(rec, apiKey) ==
    LET body == rec.request.body
        withKey == [rec EXCEPT !.verified = TRUE, !.apiKey = apiKey]
    IN
    IF Falsy(apiKey)
    THEN Send(withKey, 500, ErrorBody("API key not configured"))
    ELSE IF body.kind = "absent"
    THEN [withKey EXCEPT !.pc = "done"]
    ELSE IF Falsy(body.model) \/ Falsy(body.contents)
    THEN Send(withKey, 400,
              ErrorBody("Missing required parameters: model and contents"))
    ELSE [withKey EXCEPT
            !.pc = "generating",
            !.calls = Append(@, [fn |-> "generateContent",
                                 args |-> [model |-> body.model,
                                           contents |-> body.contents,
                                           config |-> OrElse(body.config, EmptyOptions)]])]

\* The segment with the payload test made before the credential test.
AfterVerifyPayloadFirst(rec, apiKey) ==
    LET body == rec.request.body
        withKey == [rec EXCEPT !.verified = TRUE, !.apiKey = apiKey]
    IN
    IF body.kind = "absent"
    THEN CatchAll(withKey, <<"Cannot destructure property of undefined">>)
    ELSE IF Falsy(body.model) \/ Falsy(body.contents)
    THEN Send(withKey, 400,
              ErrorBody("Missing required parameters: model and contents"))
    ELSE IF Falsy(apiKey)
    THEN Send(withKey, 500, ErrorBody("API key not configured"))
    ELSE [withKey EXCEPT
            !.pc = "generating",
            !.calls = Append(@, [fn |-> "generateContent",
                                 args |-> [model |-> body.model,
                                           contents |-> body.contents,
                                           config |-> OrElse(body.config, EmptyOptions)]])]

\* The segment with the request body itself passed to generateContent.
AfterVerifyWholeBody(rec, apiKey) ==
    LET body == rec.request.body
        withKey == [rec EXCEPT !.verified = TRUE, !.apiKey = apiKey]
    IN
    IF Falsy(apiKey)
    THEN Send(withKey, 500, ErrorBody("API key not configured"))
    ELSE IF body.kind = "absent"
    THEN CatchAll(withKey, <<"Cannot destructure property of undefined">>)
    ELSE IF Falsy(body.model) \/ Falsy(body.contents)
    THEN Send(withKey, 400,
              ErrorBody("Missing required parameters: model and contents"))
    ELSE [withKey EXCEPT
            !.pc = "generating",
            !.calls = Append(@, [fn |-> "generateContent",
                                 args |-> JsonObject([model |-> body.model,
                                                      contents |-> body.contents,
                                                      config |-> body.config,
                                                      extra |-> body.extra])])]

\* From the resolution of verifyIdToken to the await of generateContent.
AfterVerify(rec, apiKey) ==
    LET body == rec.request.body
        withKey == [rec EXCEPT !.verified = TRUE, !.apiKey = apiKey]
    IN
    IF Falsy(apiKey)
    THEN Send(withKey, 500, ErrorBody("API key not configured"))
    ELSE IF body.kind = "absent"
    THEN CatchAll(withKey, <<"Cannot destructure property of undefined">>)
    ELSE IF Falsy(body.model) \/ Falsy(body.contents)
    THEN Send(withKey, 400,
              ErrorBody("Missing required parameters: model and contents"))
    ELSE [withKey EXCEPT
            !.pc = "generating",
            !.calls = Append(@, [fn |-> "generateContent",
                                 args |-> [model |-> body.model,
                                           contents |-> body.contents,
                                           config |-> OrElse(body.config, EmptyOptions)]])]

\* The catch clause around verifyIdToken without its return: the handler
\* answers 401 and goes on with the request.
VerifyFailedNoReturn(rec, reason) ==
    LET answered == Send([rec EXCEPT !.verifyError = reason], 401,
                         ErrorBody("Unauthorized - Invalid token"))
        body == rec.request.body
    IN  IF Falsy(body.model) \/ Falsy(body.contents)
        THEN answered
        ELSE [answered EXCEPT
                !.pc = "generating",
                !.apiKey = "K1",
                !.calls = Append(@, [fn |-> "generateContent",
                                     args |-> [model |-> body.model,
                                               contents |-> body.contents,
                                               config |-> OrElse(body.config, EmptyOptions)]])]

\* The catch clause around verifyIdToken.
VerifyFailed(rec, reason) ==
    Send([rec EXCEPT !.verifyError = reason], 401,
         ErrorBody("Unauthorized - Invalid token"))

\* The success response made of the whole upstream result.
SuccessWholeResult(rec, result) == Send(rec, 200, JsonObject(result))

\* The success response.
Success(rec, result) ==
    Send(rec, 200,
         JsonObject([text |-> result.text,
                     candidates |-> result.candidates,
                     usageMetadata |-> result.usageMetadata]))

----------------------------------------------------------------------------
(* Actions *)

Init ==
    /\ reqs = [r \in ReqIds |-> Fresh]
    /\ gemini_apikey \in ConfigKeys
    /\ GEMINI_API_KEY \in EnvKeys
    /\ keyFaultLogged = FALSE
    /\ wav = NotCalled
    /\ quant = NoSample
    /\ client = NoClient

\* The function is invoked with a request: the middleware, then the callback
\* up to its first await or response.
Arrive(request) ==
    LET arrived == [Fresh EXCEPT !.request = request]
        pre == corsHandler(arrived)
    IN  IF pre.handled THEN pre.rec ELSE HandlerEntry(pre.rec)

\* A request arrives and the function runs up to its first await or response.
onRequest(r, request) ==
    /\ reqs[r].pc = "none"
    /\ reqs' = [reqs EXCEPT ![r] = Arrive(request)]
    /\ UNCHANGED <<gemini_apikey, GEMINI_API_KEY, keyFaultLogged, wav, quant, client>>

\* verifyIdToken resolves, with a credential lookup that keeps a failed
\* lookup for the life of the process.
VerifyResolveCachedFault(r) ==
    /\ reqs[r].pc = "verifying"
    /\ reqs[r].idToken # <<>>
    /\ LET apiKey == IF keyFaultLogged THEN Undefined
                     ELSE ResolveApiKey(gemini_apikey, GEMINI_API_KEY) IN
         /\ reqs' = [reqs EXCEPT ![r] = AfterVerify(@, apiKey)]
         /\ keyFaultLogged' = (keyFaultLogged \/ Falsy(apiKey))
    /\ UNCHANGED <<gemini_apikey, GEMINI_API_KEY, wav, quant, client>>

\* verifyIdToken resolves.  An empty token is never accepted.
VerifyResolve(r) ==
    /\ reqs[r].pc = "verifying"
    /\ reqs[r].idToken # <<>>
    /\ LET apiKey == ResolveApiKey(gemini_apikey, GEMINI_API_KEY) IN
         /\ reqs' = [reqs EXCEPT ![r] = AfterVerify(@, apiKey)]
         /\ keyFaultLogged' = (keyFaultLogged \/ Falsy(apiKey))
    /\ UNCHANGED <<gemini_apikey, GEMINI_API_KEY, wav, quant, client>>

\* verifyIdToken rejects.
VerifyReject(r, reason) ==
    /\ reqs[r].pc = "verifying"
    /\ reqs' = [reqs EXCEPT ![r] = VerifyFailed(@, reason)]
    /\ UNCHANGED <<gemini_apikey, GEMINI_API_KEY, keyFaultLogged, wav, quant, client>>

\* generateContent resolves, with the result kept in a variable of the module:
\* the response is built from the result another request left there.
GenerateResolveShared(r, result) ==
    /\ reqs[r].pc = "generating"
    /\ LET others == { q \in DOMAIN reqs :
                         q # r /\ reqs[q].upstream.outcome = "resolved" }
           used == IF others = {} THEN result
                   ELSE reqs[CHOOSE q \in others : TRUE].upstream.result
       IN  reqs' = [reqs EXCEPT ![r] =
                       Success([@ EXCEPT !.upstream = Resolved(result)], used)]
    /\ UNCHANGED <<gemini_apikey, GEMINI_API_KEY, keyFaultLogged, wav, quant, client>>

\* generateContent resolves with a result.
GenerateResolve(r, result) ==
    /\ reqs[r].pc = "generating"
    /\ reqs' = [reqs EXCEPT ![r] = Success([@ EXCEPT !.upstream = Resolved(result)], result)]
    /\ UNCHANGED <<gemini_apikey, GEMINI_API_KEY, keyFaultLogged, wav, quant, client>>

\* generateContent rejects and the call is issued once more before the
\* handler gives up.
GenerateRejectRetry(r, message) ==
    /\ reqs[r].pc = "generating"
    /\ message \in UpstreamErrors(reqs[r].apiKey)
    /\ reqs' = [reqs EXCEPT ![r] =
                   IF Len(@.calls) < 3
                   THEN [@ EXCEPT !.calls = Append(@, @[Len(@)])]
                   ELSE CatchAll([@ EXCEPT !.upstream = Rejected(message)], message)]
    /\ UNCHANGED <<gemini_apikey, GEMINI_API_KEY, keyFaultLogged, wav, quant, client>>

\* generateContent rejects with an error.
GenerateReject(r, message) ==
    /\ reqs[r].pc = "generating"
    /\ message \in UpstreamErrors(reqs[r].apiKey)
    /\ reqs' = [reqs EXCEPT ![r] = CatchAll([@ EXCEPT !.upstream = Rejected(message)], message)]
    /\ UNCHANGED <<gemini_apikey, GEMINI_API_KEY, keyFaultLogged, wav, quant, client>>

\* The callback has returned after its response; the request is forgotten.
Close(r) ==
    /\ reqs[r].pc = "done"
    /\ reqs' = [reqs EXCEPT ![r] = Fresh]
    /\ UNCHANGED <<gemini_apikey, GEMINI_API_KEY, keyFaultLogged, wav, quant, client>>

\* The deployment's configuration changes.
Deploy(cfg, env) ==
    /\ <<cfg, env>> # <<gemini_apikey, GEMINI_API_KEY>>
    /\ gemini_apikey' = cfg
    /\ GEMINI_API_KEY' = env
    /\ UNCHANGED <<reqs, keyFaultLogged, wav, quant, client>>

Next ==
    \/ \E r \in ReqIds, request \in Requests : onRequest(r, request)
    \/ \E r \in ReqIds : VerifyResolve(r)
    \/ \E r \in ReqIds, reason \in VerifyErrors : VerifyReject(r, reason)
    \/ \E r \in ReqIds, result \in UpstreamResults : GenerateResolve(r, result)
    \/ \E r \in ReqIds, message \in AllUpstreamErrors : GenerateReject(r, message)
    \/ \E r \in ReqIds : Close(r)
    \/ \E cfg \in ConfigKeys, env \in EnvKeys : Deploy(cfg, env)

Spec == Init /\ [][Next]_vars

----------------------------------------------------------------------------
(* Concurrent requests *)

\* Number of requests whose awaits interleave.
Concurrent == 2

ConcIds == 1 .. Concurrent

\* The requests sent concurrently: POSTs with and without a bearer token,
\* with and without a model.
ConcRequests ==
    [ method : {"POST"},
      auth : {NoHeader, Header(<<BearerPrefix, "tok">>)},
      body : {ObjectBody("gemini-pro", "hi", Undefined),
              ObjectBody(Undefined, "hi", Undefined)} ]

InitConc ==
    /\ reqs = [r \in ConcIds |-> Fresh]
    /\ gemini_apikey \in ConfigKeys
    /\ GEMINI_API_KEY \in EnvKeys
    /\ keyFaultLogged = FALSE
    /\ wav = NotCalled
    /\ quant = NoSample
    /\ client = NoClient

NextConc ==
    \/ \E r \in ConcIds, request \in ConcRequests : onRequest(r, request)
    \/ \E r \in ConcIds : VerifyResolve(r)
    \/ \E r \in ConcIds, reason \in VerifyErrors : VerifyReject(r, reason)
    \/ \E r \in ConcIds, result \in UpstreamResults : GenerateResolve(r, result)
    \/ \E r \in ConcIds, message \in AllUpstreamErrors : GenerateReject(r, message)
    \/ \E r \in ConcIds : Close(r)
    \/ \E cfg \in ConfigKeys, env \in EnvKeys : Deploy(cfg, env)

SpecConc == InitConc /\ [][NextConc]_vars

----------------------------------------------------------------------------
(* The WAV encoder *)

\* Size of the WAVE header the encoder writes.
HeaderBytes == 44

\* Samples are counted in units of 1/SampleDen, so that 1.0 is SampleDen.
SampleDen == 65536

\* Numbers of channels, calls and frames beyond the small and the
\* header-sized buffers that are tried.
MaxChannels == 2
MaxCalls == 2
MaxExtra == 2

SampleRates == {24000, 44100}

\* The four bytes of a 32-bit and the two bytes of a 16-bit value, least
\* significant first.  Division rounds down, so a negative value gives the
\* bytes of its two's complement.
Uint32LE(data) ==
    <<data % 256, (data \div 256) % 256, (data \div 65536) % 256,
      (data \div 16777216) % 256>>
Uint16LE(data) == <<data % 256, (data \div 256) % 256>>

\* (x)|0 for a quotient num/den with den > 0: truncation towards zero.
TruncDiv(num, den) ==
    IF num >= 0 THEN num \div den ELSE (num + den - 1) \div den

\* channels[i][pos]: undefined beyond the end of the channel.
ReadSample(channel, pos) ==
    IF pos >= 0 /\ pos < Len(channel)
    THEN [defined |-> TRUE, num |-> channel[pos + 1]]
    ELSE [defined |-> FALSE, num |-> 0]

\* Math.max(-1, Math.min(1, s)), in units of 1/SampleDen.
Clamp(num) ==
    IF num > SampleDen THEN SampleDen
    ELSE IF num < -SampleDen THEN -SampleDen
    ELSE num

\* The scaling with the sign of the sample as its threshold.
QuantizeSignThreshold(s) ==
    IF ~s.defined THEN 0
    ELSE LET sample == Clamp(s.num) IN
         IF sample < 0
         THEN TruncDiv(sample * 32768, SampleDen)
         ELSE TruncDiv(sample * 32767, SampleDen)

\* The clamp and the scaling to a 16-bit integer.  An undefined sample makes
\* NaN, and NaN|0 is 0.
Quantize(s) ==
    IF ~s.defined THEN 0
    ELSE LET sample == Clamp(s.num) IN
         IF SampleDen + 2 * sample < 0
         THEN TruncDiv(sample * 32768, SampleDen)
         ELSE TruncDiv(sample * 32767, SampleDen)

\* A write of `bytes` through the DataView at byte offset `at`.  A write that
\* does not fit raises RangeError and changes nothing.
ViewSet(st, at, bytes) ==
    IF st.thrown THEN st
    ELSE IF at < 0 \/ at + Len(bytes) > Len(st.view)
    THEN [st EXCEPT !.thrown = TRUE]
    ELSE [st EXCEPT
            !.view = [k \in 1 .. Len(st.view) |->
                        IF k > at /\ k <= at + Len(bytes)
                        THEN bytes[k - at] ELSE st.view[k]],
            !.writes = @ \cup {<<at, Len(bytes)>>}]

setUint16(st, data) ==
    LET w == ViewSet(st, st.pos, Uint16LE(data)) IN
    IF w.thrown THEN w ELSE [w EXCEPT !.pos = @ + 2]

setUint32(st, data) ==
    LET w == ViewSet(st, st.pos, Uint32LE(data)) IN
    IF w.thrown THEN w ELSE [w EXCEPT !.pos = @ + 4]

\* The header with the data chunk's length taken before its own four bytes
\* are counted.
WriteHeaderChunkOff(st) ==
    LET rate == st.abuffer.sampleRate
        s1 == setUint32(st, 1179011410)
        s2 == setUint32(s1, st.length - 8)
        s3 == setUint32(s2, 1163280727)
        s4 == setUint32(s3, 544501094)
        s5 == setUint32(s4, 16)
        s6 == setUint16(s5, 1)
        s7 == setUint16(s6, st.numOfChan)
        s8 == setUint32(s7, rate)
        s9 == setUint32(s8, rate * 2 * st.numOfChan)
        s10 == setUint16(s9, st.numOfChan * 2)
        s11 == setUint16(s10, 16)
        s12 == setUint32(s11, 1635017060)
    IN  setUint32(s12, s12.length - s12.pos)

\* The header writes, in order.
WriteHeader(st) ==
    LET rate == st.abuffer.sampleRate
        s1 == setUint32(st, 1179011410)                 \* "RIFF"
        s2 == setUint32(s1, st.length - 8)
        s3 == setUint32(s2, 1163280727)                 \* "WAVE"
        s4 == setUint32(s3, 544501094)                  \* "fmt "
        s5 == setUint32(s4, 16)
        s6 == setUint16(s5, 1)
        s7 == setUint16(s6, st.numOfChan)
        s8 == setUint32(s7, rate)
        s9 == setUint32(s8, rate * 2 * st.numOfChan)
        s10 == setUint16(s9, st.numOfChan * 2)
        s11 == setUint16(s10, 16)
        s12 == setUint32(s11, 1635017060)               \* "data"
    IN  setUint32(s12, s12.length - s12.pos - 4)

\* The locals with the length computed for one channel.
LocalsMonoLength(prev, abuffer, len) ==
    LET numOfChan == abuffer.numberOfChannels
        length == len * 2 + 44
    IN  [ prev EXCEPT
            !.abuffer = abuffer, !.len = len, !.numOfChan = numOfChan,
            !.length = length, !.view = [k \in 1 .. length |-> 0],
            !.offset = 0, !.pos = 0, !.writes = {}, !.thrown = FALSE,
            !.out = <<>>, !.calls = @ + 1 ]

\* The locals with offset declared outside the function: it keeps the value
\* the previous call left.
LocalsKeepOffset(prev, abuffer, len) ==
    LET numOfChan == abuffer.numberOfChannels
        length == len * numOfChan * 2 + 44
    IN  [ prev EXCEPT
            !.abuffer = abuffer, !.len = len, !.numOfChan = numOfChan,
            !.length = length, !.view = [k \in 1 .. length |-> 0],
            !.pos = 0, !.writes = {}, !.thrown = FALSE,
            !.out = <<>>, !.calls = @ + 1 ]

\* The declarations of the function: its locals, with the buffer zeroed.
Locals(prev, abuffer, len) ==
    LET numOfChan == abuffer.numberOfChannels
        length == len * numOfChan * 2 + 44
    IN  [ prev EXCEPT
            !.abuffer = abuffer,
            !.len = len,
            !.numOfChan = numOfChan,
            !.length = length,
            !.view = [k \in 1 .. length |-> 0],
            !.offset = 0,
            !.pos = 0,
            !.writes = {},
            !.thrown = FALSE,
            !.out = <<>>,
            !.calls = @ + 1 ]

\* From the entry of the function to the test of the while loop.
Enter(prev, abuffer, len) ==
    LET h == WriteHeader(Locals(prev, abuffer, len)) IN
    [h EXCEPT !.pc = IF h.thrown THEN "thrown" ELSE "loop"]

\* The for loop over the channels of one frame, from channel i on.
RECURSIVE InterleaveFrom(_, _)
InterleaveFrom(st, i) ==
    IF i >= st.numOfChan \/ st.thrown THEN st
    ELSE LET sample == Quantize(ReadSample(st.abuffer.channels[i + 1], st.pos))
             w == ViewSet(st, 44 + st.offset, Uint16LE(sample))
         IN  IF w.thrown THEN w
             ELSE InterleaveFrom([w EXCEPT !.offset = @ + 2], i + 1)

\* bufferToWav is called.
bufferToWav(abuffer, len) ==
    /\ wav.pc = "idle"
    /\ wav' = Enter([wav EXCEPT !.given = abuffer], abuffer, len)
    /\ UNCHANGED <<relayVars, quant, client>>

\* The round of the loop without the increment of pos.
WriteFrameNoAdvance ==
    /\ wav.pc = "loop"
    /\ wav.pos < wav.len
    /\ LET w == InterleaveFrom(wav, 0) IN
         wav' = IF w.thrown THEN [w EXCEPT !.pc = "thrown"] ELSE w
    /\ UNCHANGED <<relayVars, quant, client>>

\* One round of the while loop.
WriteFrame ==
    /\ wav.pc = "loop"
    /\ wav.pos < wav.len
    /\ LET w == InterleaveFrom(wav, 0) IN
         wav' = IF w.thrown THEN [w EXCEPT !.pc = "thrown"]
                ELSE [w EXCEPT !.pos = @ + 1]
    /\ UNCHANGED <<relayVars, quant, client>>

\* The loop ends and the Blob is returned.
Return ==
    /\ wav.pc = "loop"
    /\ wav.pos >= wav.len
    /\ wav' = [wav EXCEPT !.pc = "done",
                          !.out = wav.view,
                          !.first = IF wav.calls = 1 THEN wav.view ELSE @]
    /\ UNCHANGED <<relayVars, quant, client>>

\* bufferToWav is called again with the same arguments.
CallAgain ==
    /\ wav.pc = "done"
    /\ wav.calls < MaxCalls
    /\ wav' = Enter(wav, wav.abuffer, wav.len)
    /\ UNCHANGED <<relayVars, quant, client>>

\* The samples the buffers are filled with: both ends of the range, values
\* beyond it, and both sides of the threshold of the scaling.
SamplePattern ==
    << SampleDen, -SampleDen, 0, -(SampleDen \div 2) - 1, -(SampleDen \div 2),
       SampleDen + 4464, 12345 >>

PatternSample(seed, c, f) ==
    SamplePattern[((seed + 3 * (c - 1) + f) % Len(SamplePattern)) + 1]

FrameCounts == (0 .. MaxExtra) \cup (HeaderBytes .. HeaderBytes + MaxExtra)

Buffers ==
    { AudioBuffer(rate, [c \in 1 .. n |-> [k \in 1 .. frames |->
                                             PatternSample(seed, c, k - 1)]]) :
        rate \in SampleRates, n \in 1 .. MaxChannels, frames \in FrameCounts,
        seed \in 0 .. (Len(SamplePattern) - 1) }

\* The number of frames of a buffer (abuffer.length).
FrameCount(abuffer) == Len(abuffer.channels[1])

\* The values of len tried with a buffer: fewer frames than it holds, as many,
\* and more.
Lens(abuffer) == FrameCounts \cup {FrameCount(abuffer) + 1}

InitWav ==
    /\ reqs = [r \in ReqIds |-> Fresh]
    /\ gemini_apikey = Undefined
    /\ GEMINI_API_KEY = Undefined
    /\ keyFaultLogged = FALSE
    /\ wav = NotCalled
    /\ quant = NoSample
    /\ client = NoClient

NextWav ==
    \/ \E abuffer \in Buffers : \E len \in Lens(abuffer) : bufferToWav(abuffer, len)
    \/ WriteFrame
    \/ Return
    \/ CallAgain

SpecWav == InitWav /\ [][NextWav]_vars

----------------------------------------------------------------------------
(* The scaling of one sample *)

\* How far beyond 1.0 and -1.0 the samples tried reach, in units of
\* 1/SampleDen.
MaxOver == 64

SampleRange == -(SampleDen + MaxOver) .. (SampleDen + MaxOver)

\* Lines 116-117 applied to the sample.
ScaleSample ==
    /\ quant.pc = "read"
    /\ quant' = [quant EXCEPT
                    !.pc = "done",
                    !.value = Quantize([defined |-> TRUE, num |-> quant.sample])]
    /\ UNCHANGED <<relayVars, wav, client>>

InitQuant ==
    /\ reqs = [r \in ReqIds |-> Fresh]
    /\ gemini_apikey = Undefined
    /\ GEMINI_API_KEY = Undefined
    /\ keyFaultLogged = FALSE
    /\ wav = NotCalled
    /\ quant \in [pc : {"read"}, int16 : {0}, sample : SampleRange, value : {0}]
    /\ client = NoClient

NextQuant == ScaleSample

SpecQuant == InitQuant /\ [][NextQuant]_vars

----------------------------------------------------------------------------
(* Decoding a sample and encoding it again *)

\* The elements of an Int16Array.
Int16s == -32768 .. 32767

\* The element read as an unsigned 16-bit integer.
DecodeUnsigned(k) == (k % 65536) * (SampleDen \div 32768)

\* dataInt16[...] / 32768.0, in units of 1/SampleDen.
Decode(k) == k * (SampleDen \div 32768)

\* decodeAudioData converts one element to a sample of the channel.
decodeAudioData ==
    /\ quant.pc = "int16"
    /\ quant' = [quant EXCEPT !.pc = "read", !.sample = Decode(quant.int16)]
    /\ UNCHANGED <<relayVars, wav, client>>

InitRound ==
    /\ reqs = [r \in ReqIds |-> Fresh]
    /\ gemini_apikey = Undefined
    /\ GEMINI_API_KEY = Undefined
    /\ keyFaultLogged = FALSE
    /\ wav = NotCalled
    /\ quant \in [pc : {"int16"}, int16 : Int16s, sample : {0}, value : {0}]
    /\ client = NoClient

NextRound ==
    \/ decodeAudioData
    \/ ScaleSample

SpecRound == InitRound /\ [][NextRound]_vars

----------------------------------------------------------------------------
(* The client *)

\* const USE_CLOUD_FUNCTION and const API_KEY, evaluated when the module loads.
USE_CLOUD_FUNCTIONTruthy(c) == ~Falsy(c.VITE_USE_CLOUD_FUNCTION)
USE_CLOUD_FUNCTION(c) == c.VITE_USE_CLOUD_FUNCTION = "true"
API_KEY(c) ==
    IF USE_CLOUD_FUNCTION(c) THEN Undefined ELSE c.VITE_GEMINI_API_KEY

\* Messages of the errors the client throws, each as one symbol.
NoApiKeyMessage == <<"VITE_GEMINI_API_KEY environment variable not configured">>
NoUrlMessage == <<"VITE_CLOUD_FUNCTION_URL environment variable is not configured">>
TtsMessage == <<"Text-to-Speech requires direct API access">>
MultiSpeakerMessage == <<"Multi-Speaker Audio requires direct API access">>

\* getAuthToken: the stored item, or null when storage cannot be read.
getAuthToken(c) == IF c.storageFails THEN Undefined ELSE c.firebaseIdToken

\* getCloudFunctionUrl: throws when the URL is not set.
getCloudFunctionUrl(c) ==
    [threw |-> Falsy(c.VITE_CLOUD_FUNCTION_URL), url |-> c.VITE_CLOUD_FUNCTION_URL]

\* The headers with the Authorization header set whatever the token is.
AuthorizationAlways(authToken) == Header(<<BearerPrefix, authToken>>)

\* headers['Authorization'], set only for a truthy token.
Authorization(authToken) ==
    IF Falsy(authToken) THEN NoHeader ELSE Header(<<BearerPrefix, authToken>>)

\* JSON.stringify(params) as the relay's body parser reads it: an object in
\* which the properties that were undefined are missing.
ParsedBody(params) ==
    LET json == JsonObject(params)
        get(k) == IF k \in DOMAIN json THEN json[k] ELSE Undefined
    IN  [kind |-> "object", model |-> get("model"), contents |-> get("contents"),
         config |-> get("config"), extra |-> Undefined]

\* response.ok
Ok(response) == response.status >= 200 /\ response.status <= 299

\* From the entry of secureGenerateContent to the await of fetch, with the
\* request handed to the relay's slot r.
secureGenerateContent(c, r, params) ==
    LET entered == [c EXCEPT !.called = Append(@, "secureGenerateContent")]
        authToken == getAuthToken(c)
        url == getCloudFunctionUrl(c)
        request == [method |-> "POST", auth |-> Authorization(authToken),
                    body |-> ParsedBody(params)]
    IN  IF url.threw
        THEN /\ client' = [entered EXCEPT !.pc = "done", !.ended = Threw(NoUrlMessage)]
             /\ UNCHANGED reqs
        ELSE /\ reqs[r].pc = "none"
             /\ client' = [entered EXCEPT
                              !.pc = "fetching",
                              !.fetches = Append(@, [url |-> url.url, request |-> request])]
             /\ reqs' = [reqs EXCEPT ![r] = Arrive(request)]

\* callGeminiAPI is called.
callGeminiAPI(r, params) ==
    /\ client.pc = "idle"
    /\ LET c == [client EXCEPT !.op = "callGeminiAPI", !.params = params,
                               !.called = Append(@, "callGeminiAPI")]
       IN  IF USE_CLOUD_FUNCTION(c)
           THEN secureGenerateContent(c, r, params)
           ELSE /\ client' =
                     IF Falsy(API_KEY(c))
                     THEN [c EXCEPT !.pc = "done", !.ended = Threw(NoApiKeyMessage)]
                     ELSE [c EXCEPT !.pc = "direct",
                                    !.clients = Append(@, API_KEY(c)),
                                    !.direct = Append(@, params)]
                /\ UNCHANGED reqs
    /\ UNCHANGED <<gemini_apikey, GEMINI_API_KEY, keyFaultLogged, wav, quant>>

\* The parameters of the speech call, as far as the relay and the upstream
\* call would read them.
SpeechParams ==
    [model |-> "gemini-2.5-flash-preview-tts", contents |-> "text",
     config |-> "audio"]

\* The start of textToSpeech and of synthesizeMultiSpeakerAudio: the two
\* tests, the construction of the direct client and its call.
SpeechEntry(c, message) ==
    IF USE_CLOUD_FUNCTION(c)
    THEN [c EXCEPT !.pc = "done", !.ended = Threw(message)]
    ELSE IF Falsy(API_KEY(c))
    THEN [c EXCEPT !.pc = "done", !.ended = Threw(NoApiKeyMessage)]
    ELSE [c EXCEPT !.pc = "direct", !.params = SpeechParams,
                   !.clients = Append(@, API_KEY(c)),
                   !.direct = Append(@, SpeechParams)]

\* textToSpeech is called.
textToSpeech ==
    /\ client.pc = "idle"
    /\ client' = SpeechEntry([client EXCEPT !.op = "textToSpeech",
                                            !.called = Append(@, "textToSpeech")],
                             TtsMessage)
    /\ UNCHANGED <<relayVars, wav, quant>>

\* synthesizeMultiSpeakerAudio is called.
synthesizeMultiSpeakerAudio ==
    /\ client.pc = "idle"
    /\ client' = SpeechEntry([client EXCEPT
                                !.op = "synthesizeMultiSpeakerAudio",
                                !.called = Append(@, "synthesizeMultiSpeakerAudio")],
                             MultiSpeakerMessage)
    /\ UNCHANGED <<relayVars, wav, quant>>

\* The relay's response reaches the client: the rest of secureGenerateContent.
FetchResolve(r) ==
    /\ client.pc = "fetching"
    /\ reqs[r].pc = "done"
    /\ LET response == reqs[r].sent[Len(reqs[r].sent)]
           body == response.body
       IN  client' = [client EXCEPT
                        !.pc = "done",
                        !.ended =
                          IF ~Ok(response)
                          THEN IF DOMAIN body = {}
                               THEN Threw(<<"Unknown error">>)
                               ELSE IF "error" \in DOMAIN body /\ ~Falsy(body.error)
                               THEN Threw(<<body.error>>)
                               ELSE Threw(<<"HTTP error! status: ", response.status>>)
                          ELSE IF DOMAIN body = {} /\ response.status = 204
                          THEN Threw(<<"Unexpected end of JSON input">>)
                          ELSE Returns(body)]
    /\ UNCHANGED <<relayVars, wav, quant>>

\* The direct generateContent call of the client resolves.  callGeminiAPI
\* returns the result; the speech functions return null when the result
\* carries no audio, and the decoded audio otherwise.
DirectResolve(result) ==
    /\ client.pc = "direct"
    /\ client' = [client EXCEPT
                    !.pc = "done",
                    !.ended =
                      IF client.op = "callGeminiAPI" THEN Returns(result)
                      ELSE IF result.candidates = Undefined THEN Returns(<<>>)
                      ELSE Returns([audioBuffer |-> "decoded",
                                    audioContext |-> "context"])]
    /\ UNCHANGED <<relayVars, wav, quant>>

\* The direct generateContent call of the client rejects.
DirectReject(message) ==
    /\ client.pc = "direct"
    /\ message \in UpstreamErrors(client.clients[Len(client.clients)])
    /\ client' = [client EXCEPT !.pc = "done", !.ended = Threw(message)]
    /\ UNCHANGED <<relayVars, wav, quant>>

\* The parameters the client's features pass to callGeminiAPI.
ClientParams ==
    { [model |-> "gemini-pro", contents |-> "hi", config |-> Undefined],
      [model |-> "gemini-pro", contents |-> "hi", config |-> "cfg"],
      [model |-> "gemini-pro", contents |-> Undefined, config |-> Undefined] }

\* The browsers the module is loaded in.  Storage that cannot be read holds
\* no token.
LoadedClients ==
    { [NoClient EXCEPT !.pc = "idle",
                       !.VITE_USE_CLOUD_FUNCTION = use,
                       !.VITE_GEMINI_API_KEY = key,
                       !.VITE_CLOUD_FUNCTION_URL = url,
                       !.firebaseIdToken = tok[1],
                       !.storageFails = tok[2]] :
        use \in {Undefined, "true", "false"},
        key \in {Undefined, "", "AK"},
        url \in {Undefined, "", "https://relay"},
        tok \in {<<Undefined, FALSE>>, <<"", FALSE>>, <<"tok", FALSE>>,
                 <<Undefined, TRUE>>} }

InitClient ==
    /\ reqs = [r \in ReqIds |-> Fresh]
    /\ gemini_apikey \in ConfigKeys
    /\ GEMINI_API_KEY \in EnvKeys
    /\ keyFaultLogged = FALSE
    /\ wav = NotCalled
    /\ quant = NoSample
    /\ client \in LoadedClients

NextClient ==
    \/ \E r \in ReqIds, params \in ClientParams : callGeminiAPI(r, params)
    \/ textToSpeech
    \/ synthesizeMultiSpeakerAudio
    \/ \E r \in ReqIds : FetchResolve(r)
    \/ \E result \in UpstreamResults : DirectResolve(result)
    \/ \E message \in AllUpstreamErrors : DirectReject(message)
    \/ \E r \in ReqIds : VerifyResolve(r)
    \/ \E r \in ReqIds, reason \in VerifyErrors : VerifyReject(r, reason)
    \/ \E r \in ReqIds, result \in UpstreamResults : GenerateResolve(r, result)
    \/ \E r \in ReqIds, message \in AllUpstreamErrors : GenerateReject(r, message)

SpecClient == InitClient /\ [][NextClient]_vars

----------------------------------------------------------------------------
(* Properties of the relay *)

Arrived(r) == reqs[r].pc # "none"
Answered(r) == reqs[r].pc = "done"

\* The names of the external calls a request has issued, in order.
CallNames(r) == [i \in 1 .. Len(reqs[r].calls) |-> reqs[r].calls[i].fn]
Issued(r, fn) == \E i \in 1 .. Len(reqs[r].calls) : reqs[r].calls[i].fn = fn

\* The request was answered with exactly one response, of status s.
AnsweredWith(r, s) ==
    /\ Answered(r)
    /\ Len(reqs[r].sent) = 1
    /\ reqs[r].sent[1].status = s

\* The request carries no usable bearer header.
NoBearer(r) ==
    LET h == reqs[r].request.auth IN
    \/ ~h.present
    \/ Len(h.value) = 0
    \/ h.value[1] # "Bearer "

\* C1: a POST request whose Authorization header is absent or does not start
\* with "Bearer " is answered 401, and neither the verification call nor the
\* upstream call is issued for it.
C1_NoBearerIs401 ==
    \A r \in ReqIds :
        (Arrived(r) /\ reqs[r].request.method = "POST" /\ NoBearer(r))
            => /\ AnsweredWith(r, 401)
               /\ reqs[r].calls = <<>>

\* A POST request with a non-bearer Authorization header has been answered.
C1_Witness ==
    \E r \in ReqIds :
        /\ Answered(r)
        /\ reqs[r].request.method = "POST"
        /\ reqs[r].request.auth = Header(<<"Basic ", "tok">>)
        /\ reqs[r].sent[1].status = 401

\* C2: the upstream call of a request is issued only after its verification
\* call has returned successfully, and a request whose verification failed is
\* answered 401 without any upstream call.
C2_VerifyBeforeUpstream ==
    \A r \in ReqIds :
        /\ Issued(r, "generateContent")
              => /\ reqs[r].verified
                 /\ reqs[r].verifyError = Undefined
                 /\ CallNames(r) = <<"verifyIdToken", "generateContent">>
        /\ reqs[r].verifyError # Undefined
              => /\ AnsweredWith(r, 401)
                 /\ ~Issued(r, "generateContent")
        /\ reqs[r].pc = "verifying" => ~Issued(r, "generateContent")

\* A request with a complete body failed verification and has been answered.
C2_Witness ==
    \E r \in ReqIds :
        /\ reqs[r].verifyError = "expired"
        /\ Answered(r)
        /\ ~Falsy(reqs[r].request.body.model)
        /\ ~Falsy(reqs[r].request.body.contents)

\* The request's method is POST, its token verified, and it was handled.
Authenticated(r) ==
    /\ reqs[r].request.method = "POST"
    /\ reqs[r].verified

\* The body of the one response of an answered request.
ResponseBody(r) == reqs[r].sent[1].body

\* A structured error: a JSON object with an `error` field.
IsErrorBody(b) == "error" \in DOMAIN b

\* C3 as claimed: an authenticated POST whose body has no model is answered 400
\* and issues no upstream call, whatever else holds.
C3_Original ==
    \A r \in ReqIds :
        (Authenticated(r) /\ reqs[r].request.body.model = Undefined)
            => /\ AnsweredWith(r, 400)
               /\ ~Issued(r, "generateContent")

\* C3, amended: an authenticated POST whose body is present but has no model,
\* handled while an upstream credential is configured, is answered 400 and
\* issues no upstream call.
C3_MissingModelIs400 ==
    \A r \in ReqIds :
        ( /\ Authenticated(r)
          /\ reqs[r].request.body.kind # "absent"
          /\ reqs[r].request.body.model = Undefined
          /\ ~Falsy(reqs[r].apiKey) )
            => /\ AnsweredWith(r, 400)
               /\ ResponseBody(r) =
                     [error |-> "Missing required parameters: model and contents"]
               /\ ~Issued(r, "generateContent")

\* An authenticated request with contents but no model was answered while a
\* credential was configured.
C3_Witness ==
    \E r \in ReqIds :
        /\ Authenticated(r)
        /\ reqs[r].request.body = ObjectBody(Undefined, "hi", Undefined)
        /\ reqs[r].apiKey = "K1"
        /\ Answered(r)

\* C4 as claimed: every request whose method is not POST is answered 405 and
\* triggers neither verification nor an upstream call.
C4_Original ==
    \A r \in ReqIds :
        (Arrived(r) /\ reqs[r].request.method # "POST")
            => /\ AnsweredWith(r, 405)
               /\ reqs[r].calls = <<>>

\* C4, amended: every request whose method is neither POST nor OPTIONS is
\* answered 405 whatever its headers and body; an OPTIONS request is answered
\* by the CORS middleware with an empty 204; neither triggers verification or
\* an upstream call.
C4_NonPostRejected ==
    \A r \in ReqIds :
        (Arrived(r) /\ reqs[r].request.method # "POST")
            => /\ reqs[r].calls = <<>>
               /\ IF reqs[r].request.method = "OPTIONS"
                  THEN AnsweredWith(r, 204) /\ ResponseBody(r) = <<>>
                  ELSE /\ AnsweredWith(r, 405)
                       /\ ResponseBody(r) = [error |-> "Method Not Allowed"]

\* A GET request carrying a bearer token and a complete body has been answered.
C4_Witness ==
    \E r \in ReqIds :
        /\ Answered(r)
        /\ reqs[r].request.method = "GET"
        /\ reqs[r].request.auth = Header(<<"Bearer ", "tok">>)
        /\ reqs[r].request.body = ObjectBody("gemini-pro", "hi", Undefined)

\* C5: when the upstream call of an authenticated, complete POST returns R, the
\* response is 200 and its body has exactly the fields among text, candidates
\* and usageMetadata that R has, each with R's value.
C5_SuccessBody ==
    \A r \in ReqIds :
        reqs[r].upstream.outcome = "resolved"
            => LET R == reqs[r].upstream.result IN
               /\ Authenticated(r)
               /\ AnsweredWith(r, 200)
               /\ DOMAIN ResponseBody(r) \subseteq {"text", "candidates", "usageMetadata"}
               /\ \A k \in {"text", "candidates", "usageMetadata"} :
                     IF R[k] = Undefined
                     THEN k \notin DOMAIN ResponseBody(r)
                     ELSE k \in DOMAIN ResponseBody(r) /\ ResponseBody(r)[k] = R[k]

\* The upstream returned a result without candidates and the request was
\* answered.
C5_Witness ==
    \E r \in ReqIds :
        /\ Answered(r)
        /\ reqs[r].upstream = Resolved(UpstreamResult("hello", Undefined, "usage"))
        /\ ~Falsy(reqs[r].apiKey)
        /\ ~Falsy(reqs[r].request.body.model)
        /\ ~Falsy(reqs[r].request.body.contents)

\* C6: whenever the upstream call throws, the request is answered 500 with a
\* body carrying an `error` field and the upstream error's message.
C6_UpstreamFailureIs500 ==
    \A r \in ReqIds :
        reqs[r].upstream.outcome = "rejected"
            => /\ AnsweredWith(r, 500)
               /\ IsErrorBody(ResponseBody(r))
               /\ "message" \in DOMAIN ResponseBody(r)
               /\ ResponseBody(r).message = reqs[r].upstream.message

\* The upstream call of a request was rejected for quota.
C6_Witness ==
    \E r \in ReqIds :
        /\ reqs[r].upstream = Rejected(<<"quota exceeded">>)
        /\ Answered(r)

\* The response the key check gives when no credential is configured.
IsKeyFault(resp) ==
    /\ resp.status = 500
    /\ resp.body = [error |-> "API key not configured"]

\* C7: a verified POST handled while no credential is available is answered
\* 500 "API key not configured" without an upstream call; one handled while a
\* credential is available is not, whatever happened to earlier requests, and
\* its upstream call is issued when its body is complete.
C7_KeyFaultPerRequest ==
    [][ \A r \in ReqIds :
          (reqs[r].pc = "verifying" /\ reqs'[r].verified)
            => IF Falsy(gemini_apikey) /\ Falsy(GEMINI_API_KEY)
               THEN /\ Len(reqs'[r].sent) = 1
                    /\ IsKeyFault(reqs'[r].sent[1])
                    /\ reqs'[r].pc = "done"
                    /\ reqs'[r].calls = reqs[r].calls
               ELSE /\ \A i \in 1 .. Len(reqs'[r].sent) : ~IsKeyFault(reqs'[r].sent[i])
                    /\ ( /\ reqs[r].request.body.kind = "object"
                         /\ ~Falsy(reqs[r].request.body.model)
                         /\ ~Falsy(reqs[r].request.body.contents) )
                          => /\ reqs'[r].pc = "generating"
                             /\ reqs'[r].sent = <<>> ]_vars

\* After an earlier request met the missing credential, a request has been
\* answered 200.
C7_Witness ==
    \E r \in ReqIds :
        /\ keyFaultLogged
        /\ AnsweredWith(r, 200)

\* The credentials a deployment may hold.
Secrets == (ConfigKeys \cup EnvKeys) \ {Undefined, ""}

\* C8: no response body contains the upstream credential.
C8_NoCredentialInResponse ==
    \A r \in ReqIds : \A i \in 1 .. Len(reqs[r].sent) :
        LET b == reqs[r].sent[i].body IN
        \A k \in DOMAIN b :
            IF k = "message"
            THEN \A j \in 1 .. Len(b[k]) : b[k][j] \notin Secrets
            ELSE b[k] \notin Secrets

\* C9: a request without a bearer header receives the same response as a
\* request whose token fails verification.
C9_Uniform401 ==
    \A r \in ReqIds :
        (AnsweredWith(r, 401) /\ reqs[r].calls = <<>>)
            => \A reason \in VerifyErrors :
                  reqs[r].sent = VerifyFailed(Fresh, reason).sent

\* C10 as claimed: every request ends with exactly one response, which is the
\* 200 success body or a JSON object with an `error` field.
C10_Original ==
    \A r \in ReqIds :
        /\ Len(reqs[r].sent) <= 1
        /\ Answered(r) <=> Len(reqs[r].sent) = 1
        /\ Answered(r)
              => \/ reqs[r].sent[1].status = 200
                 \/ IsErrorBody(ResponseBody(r))

\* C10, amended: every request ends with exactly one response, which is the
\* 200 success body, a JSON object with an `error` field or, for an OPTIONS
\* request, the CORS middleware's empty 204; the handler is never left
\* without a response once it stops waiting for an external call.
C10_OneStructuredResponse ==
    \A r \in ReqIds :
        /\ Len(reqs[r].sent) <= 1
        /\ Answered(r) <=> Len(reqs[r].sent) = 1
        /\ reqs[r].pc \in {"none", "verifying", "generating", "done"}
        /\ Answered(r)
              => \/ /\ reqs[r].sent[1].status = 200
                    /\ reqs[r].upstream.outcome = "resolved"
                 \/ /\ reqs[r].sent[1].status \in {400, 401, 405, 500}
                    /\ IsErrorBody(ResponseBody(r))
                 \/ /\ reqs[r].request.method = "OPTIONS"
                    /\ reqs[r].sent[1].status = 204

\* A verified request without a body has been answered.
C10_Witness ==
    \E r \in ReqIds :
        /\ Answered(r)
        /\ reqs[r].verified
        /\ ~Falsy(reqs[r].apiKey)
        /\ reqs[r].request.body.kind = "absent"
        /\ reqs[r].sent[1].status = 500

\* What the response of a request may depend on: the request, the credential
\* it read and the outcomes of its own two external calls.
OwnInputs(rec) ==
    <<rec.request, rec.apiKey, rec.verified, rec.verifyError, rec.upstream>>

\* C11: with the awaits of several requests interleaved, a step of one request
\* leaves every other request as it was, and any two answered requests with the
\* same method, header, body, credential and call outcomes have the same
\* response.
C11_RequestsIndependent ==
    [][ /\ \A r \in ConcIds, q \in ConcIds :
              (r # q /\ reqs'[r] # reqs[r]) => reqs'[q] = reqs[q]
        /\ \A r \in ConcIds, q \in ConcIds :
              ( /\ reqs'[r].pc = "done"
                /\ reqs'[q].pc = "done"
                /\ OwnInputs(reqs'[r]) = OwnInputs(reqs'[q]) )
                  => reqs'[r].sent = reqs'[q].sent ]_vars

\* One request was answered 200 while another with the same content is still
\* waiting for its upstream call.
C11_Witness ==
    \E r \in ConcIds, q \in ConcIds :
        /\ r # q
        /\ reqs[r].pc = "generating"
        /\ reqs[q].pc = "done"
        /\ reqs[q].upstream.outcome = "resolved"
        /\ reqs[q].request = reqs[r].request

\* The values that count as an absent or empty parameter.
EmptyValues == {Undefined, "", EmptyList}

\* C19: no upstream call is issued with an absent or empty model or contents,
\* and an authenticated POST handled with a credential whose body is absent or
\* not an object, or whose model or contents is missing or empty, is answered
\* 400 with nothing forwarded.
C19_PayloadNonEmpty ==
    \A r \in ReqIds :
        /\ \A i \in 1 .. Len(reqs[r].calls) :
              reqs[r].calls[i].fn = "generateContent"
                => /\ reqs[r].calls[i].args.model \notin EmptyValues
                   /\ reqs[r].calls[i].args.contents \notin EmptyValues
        /\ ( /\ Authenticated(r)
             /\ ~Falsy(reqs[r].apiKey)
             /\ \/ reqs[r].request.body.kind # "object"
                \/ reqs[r].request.body.model \in EmptyValues
                \/ reqs[r].request.body.contents \in EmptyValues )
              => /\ AnsweredWith(r, 400)
                 /\ ~Issued(r, "generateContent")

\* The number of calls of fn a request has issued.
CallCount(r, fn) ==
    Cardinality({ i \in 1 .. Len(reqs[r].calls) : reqs[r].calls[i].fn = fn })

\* C20: a request issues at most one verification call and at most one
\* upstream call, and a rejected upstream call ends the request.
C20_NoRetry ==
    \A r \in ReqIds :
        /\ CallCount(r, "verifyIdToken") <= 1
        /\ CallCount(r, "generateContent") <= 1
        /\ reqs[r].upstream.outcome = "rejected"
              => Answered(r) /\ CallCount(r, "generateContent") = 1
        /\ reqs[r].verifyError # Undefined
              => Answered(r) /\ CallCount(r, "verifyIdToken") = 1

\* A request handled with the environment's credential had its upstream call
\* rejected and was answered.
C20_Witness ==
    \E r \in ReqIds :
        /\ Answered(r)
        /\ reqs[r].apiKey = "K2"
        /\ reqs[r].upstream.outcome = "rejected"
        /\ CallNames(r) = <<"verifyIdToken", "generateContent">>

\* The arguments of the upstream call of a request, when it issued one.
UpstreamArgs(r) ==
    { reqs[r].calls[i].args :
        i \in { i \in 1 .. Len(reqs[r].calls) :
                  reqs[r].calls[i].fn = "generateContent" } }

\* C21 as claimed: the upstream call carries the body's model and contents, the
\* body's config whenever the body has one and the empty options object when
\* it has none, and nothing else.
C21_Original ==
    \A r \in ReqIds : \A args \in UpstreamArgs(r) :
        LET body == reqs[r].request.body IN
        /\ DOMAIN args = {"model", "contents", "config"}
        /\ args.model = body.model
        /\ args.contents = body.contents
        /\ args.config = IF body.config = Undefined THEN EmptyOptions
                         ELSE body.config

\* C21, amended: the upstream call carries the body's model and contents
\* unchanged and nothing else of the body; its config is the body's config when
\* that is a truthy value, and the empty options object when config is omitted
\* or is a falsy value (such as the empty string).
C21_ForwardsBody ==
    \A r \in ReqIds : \A args \in UpstreamArgs(r) :
        LET body == reqs[r].request.body IN
        /\ DOMAIN args = {"model", "contents", "config"}
        /\ args.model = body.model
        /\ args.contents = body.contents
        /\ args.config = IF body.config \in {Undefined, ""} THEN EmptyOptions
                         ELSE body.config

\* The upstream call was issued for a body that carries a config and a further
\* property.
C21_Witness ==
    \E r \in ReqIds :
        /\ reqs[r].request.body.extra = "apiKey"
        /\ reqs[r].request.body.config = "cfg"
        /\ UpstreamArgs(r) # {}

\* The request is answered with one response of status s and error e, having
\* issued the calls named.
Rejects(r, s, e, names) ==
    /\ AnsweredWith(r, s)
    /\ ResponseBody(r).error = e
    /\ CallNames(r) = names

\* What a request that passed the method and bearer checks shows of the
\* checks after them: verification, credential, then the upstream call.
\* `payload` is what the payload check makes of the request.
LaterChecks(r, payload) ==
    IF reqs[r].verifyError # Undefined
    THEN Rejects(r, 401, "Unauthorized - Invalid token", <<"verifyIdToken">>)
    ELSE IF ~reqs[r].verified
    THEN /\ reqs[r].pc = "verifying"
         /\ CallNames(r) = <<"verifyIdToken">>
    ELSE IF Falsy(reqs[r].apiKey)
    THEN Rejects(r, 500, "API key not configured", <<"verifyIdToken">>)
    ELSE IF payload # "passed"
    THEN payload = "rejected"
    ELSE /\ CallNames(r) = <<"verifyIdToken", "generateContent">>
         /\ CASE reqs[r].upstream.outcome = "none" -> reqs[r].pc = "generating"
              [] reqs[r].upstream.outcome = "resolved" -> AnsweredWith(r, 200)
              [] reqs[r].upstream.outcome = "rejected" -> AnsweredWith(r, 500)

\* The payload check as claimed: a body without model or contents is
\* answered 400.
PayloadClaimed(r) ==
    LET body == reqs[r].request.body IN
    IF Falsy(body.model) \/ Falsy(body.contents)
    THEN IF Rejects(r, 400, "Missing required parameters: model and contents",
                    <<"verifyIdToken">>)
         THEN "rejected" ELSE "other"
    ELSE "passed"

\* The payload check of the handler: an absent body is answered 500 by the
\* catch clause, a body without model or contents 400.
PayloadHandled(r) ==
    LET body == reqs[r].request.body IN
    IF body.kind = "absent"
    THEN IF Rejects(r, 500, "Failed to process request", <<"verifyIdToken">>)
         THEN "rejected" ELSE "other"
    ELSE IF Falsy(body.model) \/ Falsy(body.contents)
    THEN IF Rejects(r, 400, "Missing required parameters: model and contents",
                    <<"verifyIdToken">>)
         THEN "rejected" ELSE "other"
    ELSE "passed"

\* C22 as claimed: the checks are method (405), bearer header (401),
\* verification (401), credential (500), payload (400), upstream call (500 or
\* 200), and the first that fails decides the response and ends the request.
C22_Original ==
    \A r \in ReqIds :
        Arrived(r) =>
            IF reqs[r].request.method # "POST"
            THEN Rejects(r, 405, "Method Not Allowed", <<>>)
            ELSE IF NoBearer(r)
            THEN Rejects(r, 401, "Unauthorized - No token provided", <<>>)
            ELSE LaterChecks(r, PayloadClaimed(r))

\* C22, amended: an OPTIONS request is answered by the CORS middleware with an
\* empty 204 before any check; for every other request the checks are method
\* (405), bearer header (401), verification (401), credential (500), payload
\* (500 from the catch clause when the body is absent, 400 when model or
\* contents is missing), upstream call (500 or 200); the first that fails
\* decides the response and no later external call is issued.
C22_CheckOrder ==
    \A r \in ReqIds :
        Arrived(r) =>
            IF reqs[r].request.method = "OPTIONS"
            THEN AnsweredWith(r, 204) /\ reqs[r].calls = <<>>
            ELSE IF reqs[r].request.method # "POST"
            THEN Rejects(r, 405, "Method Not Allowed", <<>>)
            ELSE IF NoBearer(r)
            THEN Rejects(r, 401, "Unauthorized - No token provided", <<>>)
            ELSE LaterChecks(r, PayloadHandled(r))

\* A POST whose token failed verification was answered 401 although it has no
\* body and no credential is configured.
C22_Witness ==
    \E r \in ReqIds :
        /\ reqs[r].verifyError # Undefined
        /\ reqs[r].request.body.kind = "absent"
        /\ Falsy(gemini_apikey) /\ Falsy(GEMINI_API_KEY)
        /\ Rejects(r, 401, "Unauthorized - Invalid token", <<"verifyIdToken">>)

----------------------------------------------------------------------------
(* Properties of the client *)

\* The module was loaded with VITE_USE_CLOUD_FUNCTION = 'true'.
SecureMode == client.VITE_USE_CLOUD_FUNCTION = "true"

\* The client has made no network call: no fetch, no direct client, no direct
\* generateContent call.
NoNetworkCall ==
    /\ client.fetches = <<>>
    /\ client.clients = <<>>
    /\ client.direct = <<>>

\* C23: in secure mode API_KEY is undefined, a callGeminiAPI call goes through
\* secureGenerateContent to the relay's URL and no direct client is built, and
\* textToSpeech and synthesizeMultiSpeakerAudio throw before any network call;
\* in direct mode without an API key every call throws before any network
\* call.
C23_SecureMode ==
    client.pc # "unloaded" =>
        /\ SecureMode =>
              /\ API_KEY(client) = Undefined
              /\ client.clients = <<>>
              /\ client.direct = <<>>
              /\ client.op = "callGeminiAPI" =>
                    /\ client.called = <<"callGeminiAPI", "secureGenerateContent">>
                    /\ \A i \in 1 .. Len(client.fetches) :
                          client.fetches[i].url = client.VITE_CLOUD_FUNCTION_URL
              /\ client.op = "textToSpeech" =>
                    client.ended = Threw(TtsMessage) /\ NoNetworkCall
              /\ client.op = "synthesizeMultiSpeakerAudio" =>
                    client.ended = Threw(MultiSpeakerMessage) /\ NoNetworkCall
        /\ (~SecureMode /\ client.VITE_GEMINI_API_KEY \in {Undefined, ""}
                /\ client.op # "none")
              => client.ended = Threw(NoApiKeyMessage) /\ NoNetworkCall

\* In secure mode, with an API key in the environment all the same, a
\* callGeminiAPI call has returned what the relay answered.
C23_Witness ==
    /\ SecureMode
    /\ client.VITE_GEMINI_API_KEY = "AK"
    /\ client.op = "callGeminiAPI"
    /\ client.ended.how = "returned"
    /\ Len(client.fetches) = 1

\* A non-empty token is stored under 'firebaseIdToken'.
TokenStored == client.firebaseIdToken \notin {Undefined, ""}

\* secureGenerateContent has been entered.
SecureCalled ==
    \E i \in 1 .. Len(client.called) : client.called[i] = "secureGenerateContent"

----------------------------------------------------------------------------
(* Properties of the encoder *)

\* A standard reader of little-endian fields at a byte offset.
ReadU16(bytes, off) == bytes[off + 1] + 256 * bytes[off + 2]
ReadU32(bytes, off) ==
    bytes[off + 1] + 256 * bytes[off + 2] + 65536 * bytes[off + 3]
        + 16777216 * bytes[off + 4]
ReadI16(bytes, off) ==
    LET u == ReadU16(bytes, off) IN IF u >= 32768 THEN u - 65536 ELSE u

Returned == wav.pc = "done"
ChannelCount == wav.abuffer.numberOfChannels

\* len does not exceed the number of frames of the buffer.
LenWithinBuffer == wav.len <= FrameCount(wav.abuffer)

\* The 16-bit value a sample has under the scaling rule of the encoder.
Scaled(c, f) == Quantize(ReadSample(wav.abuffer.channels[c + 1], f))

\* C12: for len within the buffer the returned bytes number exactly
\* len * channelCount * 2 + 44.
C12_OutputLength ==
    (wav.pc # "idle" /\ LenWithinBuffer)
        => /\ wav.pc # "thrown"
           /\ Returned => Len(wav.out) = wav.len * ChannelCount * 2 + 44

\* A stereo buffer of 45 frames has been encoded in full.
C12_Witness ==
    /\ Returned
    /\ ChannelCount = 2
    /\ wav.len = 45
    /\ FrameCount(wav.abuffer) = 45

\* C13: bytes 0-43 are "RIFF", total-8, "WAVE", "fmt ", 16, 1, channelCount,
\* sampleRate, sampleRate*2*channelCount, channelCount*2, 16, "data", total-44,
\* little-endian, with total = len*channelCount*2+44; so the RIFF size is the
\* data size plus 36 and the byte rate is sampleRate times block align.
C13_Header ==
    (Returned /\ LenWithinBuffer)
        => LET out == wav.out
               total == wav.len * ChannelCount * 2 + 44
           IN  /\ Len(out) >= 44
               /\ SubSeq(out, 1, 4) = <<82, 73, 70, 70>>
               /\ ReadU32(out, 4) = total - 8
               /\ SubSeq(out, 9, 12) = <<87, 65, 86, 69>>
               /\ SubSeq(out, 13, 16) = <<102, 109, 116, 32>>
               /\ ReadU32(out, 16) = 16
               /\ ReadU16(out, 20) = 1
               /\ ReadU16(out, 22) = ChannelCount
               /\ ReadU32(out, 24) = wav.abuffer.sampleRate
               /\ ReadU32(out, 28) = wav.abuffer.sampleRate * 2 * ChannelCount
               /\ ReadU16(out, 32) = ChannelCount * 2
               /\ ReadU16(out, 34) = 16
               /\ SubSeq(out, 37, 40) = <<100, 97, 116, 97>>
               /\ ReadU32(out, 40) = total - 44
               /\ ReadU32(out, 4) = ReadU32(out, 40) + 36
               /\ ReadU32(out, 28) = ReadU32(out, 24) * ReadU16(out, 32)

\* A stereo buffer sampled at 44100 Hz has been encoded with samples written
\* after the header.
C13_Witness ==
    /\ Returned
    /\ ChannelCount = 2
    /\ wav.abuffer.sampleRate = 44100
    /\ wav.len = 46
    /\ wav.offset > 0

\* C14: for every frame f < len and channel c, the 16-bit value at byte
\* 44 + 2*(f*channelCount + c) is the scaled sample of channel c at frame f.
C14_Interleaved ==
    (Returned /\ LenWithinBuffer)
        => \A f \in 0 .. (wav.len - 1), c \in 0 .. (ChannelCount - 1) :
              ReadI16(wav.out, 44 + 2 * (f * ChannelCount + c)) = Scaled(c, f)

\* C15: the scaled value is the clamped sample times 32768 when 0.5 + s < 0 and
\* times 32767 otherwise, truncated towards zero; it lies in -32768..32767;
\* 1.0 gives 32767, -1.0 gives -32768, 0.0 gives 0, and a sample beyond the
\* range gives what the nearest bound gives.
C15_Quantization ==
    quant.pc = "done"
        => LET s == quant.sample
               v == quant.value
               c == IF s > SampleDen THEN SampleDen
                    ELSE IF s < -SampleDen THEN -SampleDen ELSE s
               x == IF 2 * c < -SampleDen THEN c * 32768 ELSE c * 32767
           IN  /\ v \in -32768 .. 32767
               /\ IF x >= 0
                  THEN v >= 0 /\ v * SampleDen <= x /\ x - v * SampleDen < SampleDen
                  ELSE v <= 0 /\ v * SampleDen >= x /\ v * SampleDen - x < SampleDen
               /\ s >= SampleDen => v = 32767
               /\ s <= -SampleDen => v = -32768
               /\ s = 0 => v = 0

\* A sample just above -0.5, where the smaller factor applies to a negative
\* sample, has been scaled.
C15_Witness ==
    /\ quant.pc = "done"
    /\ quant.sample = -(SampleDen \div 2) + 1
    /\ quant.value = -16383

\* C16: when the channels hold fewer than len samples the call fails and
\* returns nothing.
C16_ShortBufferFails ==
    (wav.pc # "idle" /\ ~LenWithinBuffer) => ~Returned

\* C17: a standard reader of the returned bytes recovers the sample rate, the
\* channel count and, for every frame f < len and channel c, a sample within
\* one step of the scaled input sample.
C17_RoundTrip ==
    (Returned /\ LenWithinBuffer)
        => LET channels == ReadU16(wav.out, 22)
               blockAlign == ReadU16(wav.out, 32)
               dataStart == 44
               frames == ReadU32(wav.out, 40) \div blockAlign
           IN  /\ ReadU32(wav.out, 24) = wav.abuffer.sampleRate
               /\ channels = ChannelCount
               /\ frames = wav.len
               /\ \A f \in 0 .. (frames - 1), c \in 0 .. (channels - 1) :
                     LET got == ReadI16(wav.out, dataStart + f * blockAlign + 2 * c)
                     IN  /\ got - Scaled(c, f) <= 1
                         /\ Scaled(c, f) - got <= 1

\* C18: a second call with the same buffer and len returns the same bytes as
\* the first, no call fails, and the buffer passed in is never changed.
C18_Deterministic ==
    wav.pc # "idle"
        => /\ wav.abuffer = wav.given
           /\ LenWithinBuffer => wav.pc # "thrown"
           /\ (Returned /\ wav.calls >= 2) => wav.out = wav.first

\* The second call on a stereo buffer of 46 frames has returned.
C18_Witness ==
    /\ Returned
    /\ wav.calls = 2
    /\ ChannelCount = 2
    /\ wav.len = 46
    /\ wav.offset > 0


\* The size of the buffer a call allocates.
Allocated(st) == st.len * st.numOfChan * 2 + HeaderBytes

\* A call in state st is safe: no range error was raised, the buffer has its
\* size, and every write lies inside the header or inside the data region.
SafeWrites(st) ==
    st.pc # "idle" =>
        /\ ~st.thrown
        /\ st.pc # "thrown"
        /\ Len(st.view) = Allocated(st)
        /\ \A w \in st.writes :
              \/ w[1] >= 0 /\ w[1] + w[2] <= HeaderBytes
              \/ w[1] >= HeaderBytes /\ w[1] + w[2] <= Allocated(st)

\* C25: whatever len and the lengths of the channels, every write lands
\* inside the buffer of len*channelCount*2+44 bytes and no range error is
\* raised; a round of the loop writes in bytes 44..end only and leaves the
\* header as it was; and the function returns: a round brings pos nearer to
\* len, and the loop is left by the return.
C25_MemorySafe ==
    [][ /\ SafeWrites(wav')
        /\ wav.pc = "loop" =>
              /\ SubSeq(wav'.view, 1, HeaderBytes) = SubSeq(wav.view, 1, HeaderBytes)
              /\ \A w \in wav'.writes \ wav.writes : w[1] >= HeaderBytes
              /\ \/ wav'.pc = "done"
                 \/ /\ wav'.pc = "loop"
                    /\ wav.pos < wav.len
                    /\ wav'.len = wav.len
                    /\ wav'.len - wav'.pos < wav.len - wav.pos ]_vars

\* A call with len beyond the end of its two channels has returned after
\* writing samples.
C25_Witness ==
    /\ Returned
    /\ ChannelCount = 2
    /\ wav.len = FrameCount(wav.abuffer) + 1
    /\ \E w \in wav.writes : w[1] >= HeaderBytes

\* C26: a 16-bit integer k decoded to k/32768 and scaled again differs from k
\* by at most 1, and is k again exactly when k < -16384 or k = 0.
C26_SampleRoundTrip ==
    quant.pc = "done" =>
        LET k == quant.int16
            v == quant.value
        IN  /\ v \in Int16s
            /\ v - k \in {-1, 0, 1}
            /\ (v = k) <=> (k < -16384 \/ k = 0)

\* -16384, the last value scaled by 32767, has come back as -16383.
C26_Witness ==
    /\ quant.pc = "done"
    /\ quant.int16 = -16384
    /\ quant.value = -16383

====
